---------------------------- MODULE Spec2Model ----------------------------
(***************************************************************************)
(* Streaming ingestion clients of unusual-whales/api-examples.             *)
(*                                                                         *)
(*   "file"   examples/ws-multi-channel-multi-output/                      *)
(*            ws_demo_multi_channel_and_multi_outfiles.py                  *)
(*   "sqlite" examples/ws-stream-flow-alerts-to-sqlite/                    *)
(*            stream_flow_alerts.py                                        *)
(*   "duckdb" examples/ws-stream-spot-greeks-by-strike-by-expiry/          *)
(*            ws_stream_spot_greeks_by_strike_by_expiry.py                 *)
(*                                                                         *)
(* One process runs one client.  The state is the position of the main     *)
(* coroutine (pc), the retry counter, the transport, the in-memory buffers *)
(* and the durable stores.  Every action is the code that runs between two *)
(* suspension points (awaits) of the asyncio program, exception handlers   *)
(* included.  Time is counted in ticks while the receive loop waits.       *)
(***************************************************************************)
EXTENDS Integers, Sequences, FiniteSets

\* ------------------------------------------------------------------ bounds

\* Frames received over the life of the process.
MaxFrames == 2

\* Distinct values of the identifying fields of a payload (1..MaxKey).
MaxKey == 2

\* Idle timeout of the receive wait, in ticks (30 s / 30 s / 90 s in the
\* sources; scaled, kept larger than every flush interval).
TIMEOUT_LENGTH == 3

\* duckdb: BATCH_SIZE = 500 records, scaled.
BATCH_SIZE == 2

\* duckdb: BATCH_TIMEOUT = 10 s, scaled (ticks), below TIMEOUT_LENGTH.
BATCH_TIMEOUT == 2

\* Records a sink with little room left still accepts before writes fail
\* (disk full / database error).
SmallDisk == 1

\* ------------------------------------------------------- program constants

MAX_RECONNECT_ATTEMPTS == 5

\* Base and cap of the reconnect delay, in seconds (the same in the three
\* clients).
RECONNECT_DELAY == 5
RECONNECT_DELAY_MAX == 60

\* file / sqlite: "if time_since_flush >= 1.0"
FLUSH_INTERVAL == 1

Clients == {"file", "sqlite", "duckdb"}

\* Destinations: the three buffers/files of the file client; the sqlite
\* client owns "flowalerts" only, the duckdb client "greeks" only.
Dest == {"optiontrades", "flowalerts", "greeks"}

Null == 0
Keys == 1..MaxKey

\* A sink that never fills up has room for everything the run can write.
BigDisk == 2 * MaxFrames + 1
Capacities == {SmallDisk, BigDisk}

\* --------------------------------------------------------------- frames

\* A channel tag is modelled by the set of known patterns it contains:
\* p \in chan  <=>  Python's  'p' in channel.
Patterns == {"option_trades", "flow-alerts", "gex"}
Chans == {{"option_trades"}, {"flow-alerts"}, {"gex"}, {}}
\* Tags that contain several patterns.
MixedChans == {{"option_trades", "flow-alerts", "gex"}, {"flow-alerts", "gex"}}

AllFields == {"timestamp", "ticker", "strike", "expiry", "price", "id"}

\* Payloads: isdict, the field names present, and ident, the value of the
\* identifying fields (id for sqlite; ticker|expiry|strike|timestamp for
\* duckdb).
DataPayload(k) == [isdict |-> TRUE, fields |-> AllFields, ident |-> k]
NoIdPayload(k) == [isdict |-> TRUE, fields |-> AllFields \ {"id"}, ident |-> k]
ControlPayload == [isdict |-> TRUE, fields |-> {"status"}, ident |-> Null]
NoTickerPayload == [isdict |-> TRUE, fields |-> AllFields \ {"ticker"}, ident |-> Null]
NoStrikePayload == [isdict |-> TRUE, fields |-> AllFields \ {"strike"}, ident |-> Null]
NonDictPayload == [isdict |-> FALSE, fields |-> {}, ident |-> Null]

Payloads ==
    {DataPayload(k) : k \in Keys} \cup {NoIdPayload(1)} \cup
    {ControlPayload, NoTickerPayload, NoStrikePayload, NonDictPayload}

\* shape: "garbage" is text json.loads rejects; "scalar" a JSON value that is
\* no array; "short" an array of fewer than 2 elements; "pair" the
\* [channel, payload] array; "long" an array of 3 elements.
NoFrame == [shape |-> "none", chan |-> {}, payload |-> NonDictPayload]
\* asyncio.wait_for(ws.recv(), timeout=TIMEOUT_LENGTH) raised TimeoutError
TimedOut == [shape |-> "timeout", chan |-> {}, payload |-> NonDictPayload]
Frames ==
    {[shape |-> s, chan |-> {}, payload |-> NonDictPayload] :
        s \in {"garbage", "scalar", "short"}}
    \cup {[shape |-> "long", chan |-> {"gex"}, payload |-> DataPayload(1)]}
    \cup {[shape |-> "pair", chan |-> c, payload |-> p] : c \in Chans, p \in Payloads}
    \cup {[shape |-> "pair", chan |-> c, payload |-> DataPayload(1)] : c \in MixedChans}

VARIABLES
    client,             \* which of the three programs runs
    capacity,           \* environment: records the sink accepts in all
    pc,                 \* position of the main coroutine
    reconnect_attempt,  \* reconnect_attempt / reconnect_attempts
    shutdown,           \* shutdown_flag / shutdown_event / pending Ctrl+C
    ws,                 \* transport: "none", "open", "closed"
    buffer,             \* Dest -> sequence of buffered entries
    store,              \* Dest -> sequence of durably written entries
    since_flush,        \* now - last_flush_time, saturating
    idle,               \* ticks spent in the current receive wait
    nrecv,              \* frames received so far
    frame,              \* the frame handled by the last receive step
    delivered,          \* history: the entries appended to a buffer
    pending_at_loss,    \* history: the entries buffered when the connection was last lost
    persist_failed,     \* history: some batch write failed
    outcome,            \* what the process logged when it ended
    first_connect,      \* history: no connect attempt has ended yet
    reconnect_fails,    \* history: consecutive failed reconnect attempts
    open_fails,         \* history (duckdb): consecutive websockets.connect calls that raised
    joined              \* join messages sent in the last connect attempt:
                        \* "none" (no transport), "partial", "all"

vars == <<client, capacity, pc, reconnect_attempt, shutdown, ws, buffer, store,
          since_flush, idle, nrecv, frame, delivered, pending_at_loss,
          persist_failed, outcome, first_connect, reconnect_fails, open_fails, joined>>

EmptyBuffers == [d \in Dest |-> <<>>]

Range(s) == {s[i] : i \in 1..Len(s)}
SeqsOf(s) == {s[i].seq : i \in 1..Len(s)}
KeysOf(s) == {s[i].key : i \in 1..Len(s)} \ {Null}

Min(a, b) == IF a <= b THEN a ELSE b


\* ------------------------------------------------------------ the router

\* The if / elif chain with 'gex' tested first.
FileRoute_GexFirst(chan) ==
    IF "gex" \in chan THEN "greeks"
    ELSE IF "flow-alerts" \in chan THEN "flowalerts"
    ELSE IF "option_trades" \in chan THEN "optiontrades"
    ELSE "none"

\* file: if 'option_trades' in channel / elif 'flow-alerts' / elif 'gex' / else
FileRoute(chan) ==
    IF "option_trades" \in chan THEN "optiontrades"
    ELSE IF "flow-alerts" \in chan THEN "flowalerts"
    ELSE IF "gex" \in chan THEN "greeks"
    ELSE "none"

\* sqlite: if "flow-alerts" in channel / else
SqliteRoute(chan) == IF "flow-alerts" \in chan THEN "flowalerts" ELSE "none"

\* json.loads(message) succeeds
Decodes(f) == f.shape # "garbage"

\* file / sqlite: "channel, payload = data" succeeds
Unpacks(f) == f.shape = "pair"

\* duckdb: isinstance(message, list) and len(message) >= 2
HasPayload(f) == f.shape \in {"pair", "long"}

\* validate_payload without the test for "ticker".
validate_payload_TimestampOnly(payload) ==
    IF ~payload.isdict THEN FALSE
    ELSE IF "status" \in payload.fields /\ "timestamp" \notin payload.fields THEN FALSE
    ELSE IF "timestamp" \notin payload.fields THEN FALSE
    ELSE TRUE

validate_payload(payload) ==
    IF ~payload.isdict THEN FALSE
    ELSE IF "status" \in payload.fields /\ "timestamp" \notin payload.fields THEN FALSE
    ELSE IF "timestamp" \notin payload.fields \/ "ticker" \notin payload.fields THEN FALSE
    ELSE TRUE

\* parse_payload reading "strike", "expiry" and "price" with payload.get.
parse_payload_ok_Lenient(payload) ==
    {"timestamp", "ticker"} \subseteq payload.fields

\* parse_payload raises KeyError unless the subscripted fields are present
parse_payload_ok(payload) ==
    {"timestamp", "strike", "ticker", "expiry", "price"} \subseteq payload.fields

\* What a payload is once buffered: a control message (a "status" without a
\* "timestamp"), a non-mapping ("bad"), or data.
PayloadKind(payload) ==
    IF ~payload.isdict THEN "bad"
    ELSE IF "status" \in payload.fields /\ "timestamp" \notin payload.fields THEN "control"
    ELSE "data"

\* file: the formatted line  now|channel|payload.  The payload is written as
\* text whatever it is (a non-mapping is a line like any other); only a control
\* message is told apart.
FileEntry(n, f) ==
    [seq |-> n, key |-> Null,
     kind |-> IF PayloadKind(f.payload) = "control" THEN "control" ELSE "data"]

\* sqlite: the payload itself; its primary key is payload.get("id")
SqliteEntry(n, f) ==
    [seq |-> n,
     key |-> IF f.payload.isdict /\ "id" \in f.payload.fields
             THEN f.payload.ident ELSE Null,
     kind |-> PayloadKind(f.payload)]

\* duckdb: the parsed record; option_key = ticker|expiry|strike_cents|timestamp
DuckEntry(n, f) == [seq |-> n, key |-> f.payload.ident, kind |-> "data"]

\* ------------------------------------------------------------ the sinks

\* Records the sink still has room for when it holds n.
Room(n) == IF capacity > n THEN capacity - n ELSE 0

Total(files) ==
    Len(files["optiontrades"]) + Len(files["flowalerts"]) + Len(files["greeks"])

\* file: the files after the two loops of flush_buffers have written r
\* messages (all of them when there are no more than r).
WriteFirst(r, bufs, files) ==
    LET k1 == Min(Len(bufs["optiontrades"]), r)
        k2 == Min(Len(bufs["flowalerts"]), r - k1)
        k3 == Min(Len(bufs["greeks"]), r - k1 - k2)
        k == [d \in Dest |-> CASE d = "optiontrades" -> k1
                                [] d = "flowalerts" -> k2
                                [] d = "greeks" -> k3]
    IN  [d \in Dest |-> files[d] \o SubSeq(bufs[d], 1, k[d])]

\* flush_buffers putting each batch in front of what the file holds.
flush_buffers_Prepended(bufs, files) ==
    [ok |-> TRUE, store |-> [d \in Dest |-> bufs[d] \o files[d]]]

\* file: flush_buffers writes message after message, file after file (in the
\* order of the dict: optiontrades, flowalerts, greeks), each file followed by
\* f.flush().  A write the disk refuses raises: the messages written before
\* it stay in the files.
flush_buffers(bufs, files) ==
    [ok |-> Total(bufs) <= Room(Total(files)),
     store |-> WriteFirst(Room(Total(files)), bufs, files)]

\* sqlite: the batch can be built (payload.get on every payload) and the plain
\* INSERT meets no PRIMARY KEY conflict (NULL ids never conflict).
SqliteWriteOK(buf, rows) ==
    /\ Len(buf) <= Room(Len(rows))
    /\ \A i \in 1..Len(buf) : buf[i].kind # "bad"
    /\ KeysOf(buf) \cap KeysOf(rows) = {}
    /\ \A i, j \in 1..Len(buf) :
          (i # j /\ buf[i].key # Null) => buf[i].key # buf[j].key

\* flush_buffers_to_db without the early return for an empty buffer: the
\* transaction is opened for no rows and fails when the database is full.
flush_buffers_to_db_NoEarlyReturn(buf, rows) ==
    IF SqliteWriteOK(buf, rows) /\ (buf # <<>> \/ Room(Len(rows)) > 0)
    THEN [ok |-> TRUE, rows |-> rows \o buf]
    ELSE [ok |-> FALSE, rows |-> rows]

\* sqlite: flush_buffers_to_db; BEGIN, executemany INSERT, commit, or raise
\* with nothing committed.
flush_buffers_to_db(buf, rows) ==
    IF buf = <<>> THEN [ok |-> TRUE, rows |-> rows]
    ELSE IF SqliteWriteOK(buf, rows) THEN [ok |-> TRUE, rows |-> rows \o buf]
    ELSE [ok |-> FALSE, rows |-> rows]

\* duckdb: INSERT OR IGNORE INTO ... PRIMARY KEY (option_key)
RECURSIVE InsertOrIgnore(_, _)
InsertOrIgnore(rows, buf) ==
    IF buf = <<>> THEN rows
    ELSE IF Head(buf).key \in KeysOf(rows)
         THEN InsertOrIgnore(rows, Tail(buf))
         ELSE InsertOrIgnore(Append(rows, Head(buf)), Tail(buf))

\* duckdb: conn.execute(query) does not raise
DuckWriteOK(buf, rows) == Len(InsertOrIgnore(rows, buf)) <= Len(rows) + Room(Len(rows))

\* flush_buffer_to_db returning without inserting.
flush_buffer_to_db_Dropped(buf, rows) == rows

\* duckdb: flush_buffer_to_db; "except Exception" logs and returns 0, so the
\* caller sees no difference between a written and a refused batch.
flush_buffer_to_db(buf, rows) ==
    IF buf = <<>> THEN rows
    ELSE IF DuckWriteOK(buf, rows) THEN InsertOrIgnore(rows, buf)
    ELSE rows


\* ------------------------------------------------- one receive iteration

\* The flush interval the receive loop compares time_since_flush with.
Interval(c) == IF c = "duckdb" THEN BATCH_TIMEOUT ELSE FLUSH_INTERVAL

\* file: the body of "while True" for one received message.  A message that
\* json.loads or the 2-way unpacking rejects raises; "except Exception"
\* flushes the buffers and re-raises.
FileRecv(f, n, bufs, files, sf) ==
    IF ~Decodes(f) \/ ~Unpacks(f)
    THEN LET w == flush_buffers(bufs, files)
         IN  [raised |-> TRUE, failed |-> ~w.ok, appended |-> FALSE,
              buffer |-> bufs, store |-> w.store, since_flush |-> sf]
    ELSE LET d == FileRoute(f.chan)
             b1 == IF d = "none" THEN bufs
                   ELSE [bufs EXCEPT ![d] = Append(@, FileEntry(n, f))]
             w == flush_buffers(b1, files)
         IN  IF sf >= FLUSH_INTERVAL
             THEN IF w.ok
                  THEN [raised |-> FALSE, failed |-> FALSE, appended |-> d # "none",
                        buffer |-> EmptyBuffers, store |-> w.store, since_flush |-> 0]
                  ELSE \* OSError: "except Exception" flushes again and re-raises
                       [raised |-> TRUE, failed |-> TRUE, appended |-> d # "none",
                        buffer |-> b1, store |-> flush_buffers(b1, w.store).store,
                        since_flush |-> sf]
             ELSE [raised |-> FALSE, failed |-> FALSE, appended |-> d # "none",
                   buffer |-> b1, store |-> files, since_flush |-> sf]

\* sqlite: the same loop body with one buffer.  A flush that raises is caught
\* by "except Exception", which flushes again (and fails again) and re-raises.
SqliteRecv(f, n, bufs, tables, sf) ==
    IF ~Decodes(f) \/ ~Unpacks(f)
    THEN LET w == flush_buffers_to_db(bufs["flowalerts"], tables["flowalerts"])
         IN  [raised |-> TRUE, failed |-> ~w.ok, appended |-> FALSE,
              buffer |-> bufs, store |-> [tables EXCEPT !["flowalerts"] = w.rows],
              since_flush |-> sf]
    ELSE LET d == SqliteRoute(f.chan)
             b1 == IF d = "none" THEN bufs
                   ELSE [bufs EXCEPT ![d] = Append(@, SqliteEntry(n, f))]
             w == flush_buffers_to_db(b1["flowalerts"], tables["flowalerts"])
         IN  IF sf >= FLUSH_INTERVAL
             THEN IF w.ok
                  THEN [raised |-> FALSE, failed |-> FALSE, appended |-> d # "none",
                        buffer |-> EmptyBuffers,
                        store |-> [tables EXCEPT !["flowalerts"] = w.rows],
                        since_flush |-> 0]
                  ELSE [raised |-> TRUE, failed |-> TRUE, appended |-> d # "none",
                        buffer |-> b1, store |-> tables, since_flush |-> sf]
             ELSE [raised |-> FALSE, failed |-> FALSE, appended |-> d # "none",
                   buffer |-> b1, store |-> tables, since_flush |-> sf]

\* The receive iteration with the size test "len(buffer) > BATCH_SIZE".
DuckRecv_SizeOffByOne(f, n, bufs, tables, sf) ==
    IF ~Decodes(f) \/ ~HasPayload(f) \/ ~validate_payload(f.payload)
       \/ ~parse_payload_ok(f.payload)
    THEN [raised |-> FALSE, failed |-> FALSE, appended |-> FALSE,
          buffer |-> bufs, store |-> tables, since_flush |-> sf]
    ELSE LET b1 == [bufs EXCEPT !["greeks"] = Append(@, DuckEntry(n, f))]
         IN  IF Len(b1["greeks"]) > BATCH_SIZE \/ sf >= BATCH_TIMEOUT
             THEN [raised |-> FALSE,
                   failed |-> ~DuckWriteOK(b1["greeks"], tables["greeks"]),
                   appended |-> TRUE,
                   buffer |-> EmptyBuffers,
                   store |-> [tables EXCEPT !["greeks"] =
                                 flush_buffer_to_db(b1["greeks"], @)],
                   since_flush |-> 0]
             ELSE [raised |-> FALSE, failed |-> FALSE, appended |-> TRUE,
                   buffer |-> b1, store |-> tables, since_flush |-> sf]

\* duckdb: the body of "while not shutdown_flag" for one received message.
\* Undecodable text, a non-list, a short list, a payload validate_payload
\* rejects and a payload parse_payload cannot build are logged and dropped.
DuckRecv(f, n, bufs, tables, sf) ==
    IF ~Decodes(f) \/ ~HasPayload(f) \/ ~validate_payload(f.payload)
       \/ ~parse_payload_ok(f.payload)
    THEN [raised |-> FALSE, failed |-> FALSE, appended |-> FALSE,
          buffer |-> bufs, store |-> tables, since_flush |-> sf]
    ELSE LET b1 == [bufs EXCEPT !["greeks"] = Append(@, DuckEntry(n, f))]
         IN  IF Len(b1["greeks"]) >= BATCH_SIZE \/ sf >= BATCH_TIMEOUT
             THEN [raised |-> FALSE,
                   failed |-> ~DuckWriteOK(b1["greeks"], tables["greeks"]),
                   appended |-> TRUE,
                   buffer |-> EmptyBuffers,
                   store |-> [tables EXCEPT !["greeks"] =
                                 flush_buffer_to_db(b1["greeks"], @)],
                   since_flush |-> 0]
             ELSE [raised |-> FALSE, failed |-> FALSE, appended |-> TRUE,
                   buffer |-> b1, store |-> tables, since_flush |-> sf]

\* The entry a delivered frame leaves in its buffer.
EntryOf(c, n, f) ==
    CASE c = "file" -> FileEntry(n, f)
      [] c = "sqlite" -> SqliteEntry(n, f)
      [] c = "duckdb" -> DuckEntry(n, f)

RecvResult(c, f, n, bufs, st, sf) ==
    CASE c = "file" -> FileRecv(f, n, bufs, st, sf)
      [] c = "sqlite" -> SqliteRecv(f, n, bufs, st, sf)
      [] c = "duckdb" -> DuckRecv(f, n, bufs, st, sf)

\* ------------------------------------------- flushes of the error handlers

\* A handler that leaves without flushing.
LossFlushes_Forgotten(c, kind) == 0

\* The flushes run while a connection loss unwinds through the handlers.
\* file: "except ConnectionClosed" (or "except Exception" for a reset), once.
\* sqlite: ConnectionClosedError and ConnectionResetError are caught inside
\* the loop (flush, raise) and again outside it (flush, raise);
\* ConnectionClosedOK only outside.  duckdb: "except Exception", flush, clear.
LossFlushes(c, kind) ==
    IF c = "sqlite" /\ kind \in {"closed_error", "reset"} THEN 2 ELSE 1

\* A flush that reports success and writes nothing.
HandlerFlush_Skipped(c, bufs, st) == [ok |-> TRUE, lost |-> FALSE, store |-> st]

\* One handler flush of every buffer, the buffers left as they are.
\* ok: the flush did not raise; lost: a write was refused.
HandlerFlush(c, bufs, st) ==
    CASE c = "file" ->
            LET w == flush_buffers(bufs, st)
            IN  [ok |-> w.ok, lost |-> ~w.ok, store |-> w.store]
      [] c = "sqlite" ->
            LET w == flush_buffers_to_db(bufs["flowalerts"], st["flowalerts"])
            IN  [ok |-> w.ok, lost |-> ~w.ok,
                 store |-> [st EXCEPT !["flowalerts"] = w.rows]]
      [] c = "duckdb" ->
            [ok |-> TRUE,
             lost |-> bufs["greeks"] # <<>> /\ ~DuckWriteOK(bufs["greeks"], st["greeks"]),
             store |-> [st EXCEPT !["greeks"] = flush_buffer_to_db(bufs["greeks"], @)]]

\* k handler flushes in a row; a flush that raises ends the handler.
RECURSIVE HandlerFlushes(_, _, _, _)
HandlerFlushes(c, k, bufs, st) ==
    IF k = 0 THEN [ok |-> TRUE, lost |-> FALSE, store |-> st]
    ELSE LET w == HandlerFlush(c, bufs, st)
             r == HandlerFlushes(c, k - 1, bufs, w.store)
         IN  IF w.ok THEN [r EXCEPT !.lost = @ \/ w.lost] ELSE w


\* ------------------------------------------------------------ main loops

\* A loop test that lets one more attempt through.
LoopContinues_OneMore(att) == att <= MAX_RECONNECT_ATTEMPTS + 1

\* file / sqlite: "while running and reconnect_attempt <= MAX_RECONNECT_ATTEMPTS"
LoopContinues(att) == att <= MAX_RECONNECT_ATTEMPTS

\* duckdb: "while not shutdown_flag and reconnect_attempts < MAX_RECONNECT_ATTEMPTS"
DuckLoopContinues(att, sd) == ~sd /\ att < MAX_RECONNECT_ATTEMPTS

\* file / sqlite main: "except Exception: reconnect_attempt += 1", the loop
\* test, and the "Giving up" log after the loop.
MainAfterError ==
    /\ reconnect_attempt' = reconnect_attempt + 1
    /\ IF LoopContinues(reconnect_attempt + 1)
       THEN pc' = "backoff" /\ outcome' = outcome
       ELSE pc' = "done" /\ outcome' = "exhausted"

\* sqlite main: asyncio.wait returns the finished task without raising its
\* exception; shutdown_event is not set, so the else branch logs "closed
\* normally" and sets running = False.
SqliteTaskDone ==
    /\ reconnect_attempt' = reconnect_attempt
    /\ pc' = "done"
    /\ outcome' = "normal"

\* Except clauses that count a failure twice.
DuckAfterError_CountsTwice ==
    /\ reconnect_attempt' = reconnect_attempt + 2
    /\ pc' = "flush_remaining"
    /\ outcome' = outcome

\* duckdb connect_and_stream: the three except clauses, reconnect_attempts += 1,
\* then on to the flush at the bottom of the loop.
DuckAfterError ==
    /\ reconnect_attempt' = reconnect_attempt + 1
    /\ pc' = "flush_remaining"
    /\ outcome' = outcome

\* The connection task (duckdb: the "async with" block) ended with an
\* exception that is no cancellation.  cancelling: main has cancelled the task
\* and awaits it ("await task" re-raises what the task raised, so sqlite's
\* "except Exception" is reached on this path only).
TaskRaised(cancelling) ==
    CASE client = "file" -> MainAfterError
      [] client = "sqlite" -> IF cancelling THEN MainAfterError ELSE SqliteTaskDone
      [] client = "duckdb" -> DuckAfterError

\* Leaving "async with websockets.connect(...)" leaves the transport open.
AsyncWithExit_Leaked(w) == w

\* The connection task ends, by return or by exception: leaving the
\* "async with websockets.connect(...) as ws" block closes the transport
\* before the caller (main's "await task", duckdb's except clauses) goes on.
AsyncWithExit(w) == "closed"

\* A handler that flushes and leaves the shared buffer as it is.
buffer_clear_Forgotten(bufs) == bufs

\* duckdb: buffer.clear() after flush_buffer_to_db in the handlers of
\* stream_websocket_to_buffer and after the try of connect_and_stream (run
\* under "if buffer", so an empty buffer stays empty).
buffer_clear(bufs) == EmptyBuffers

\* file / sqlite: the locals of connect_websocket are gone with the task.
\* duckdb: the buffer belongs to connect_and_stream and survives.
LeaveTask(bufs) == IF client = "duckdb" THEN bufs ELSE EmptyBuffers

RECURSIVE Pow2(_)
\* 2 ** n
Pow2(n) == IF n = 0 THEN 1 ELSE 2 * Pow2(n - 1)

\* The delay slept before the connect that follows n counted failures, as the
\* interval [lo, hi] of its possible values in tenths of a second.
\* file / sqlite: delay = min(RECONNECT_DELAY * 2 ** (n - 1), RECONNECT_DELAY_MAX),
\* plus jitter = delay * 0.1 * random.random().
\* duckdb: min(RECONNECT_DELAY * 2 ** n + random.uniform(0, 1), RECONNECT_DELAY_MAX).
BackoffDelay(c, n) ==
    IF c = "duckdb"
    THEN [lo |-> Min(10 * RECONNECT_DELAY * Pow2(n), 10 * RECONNECT_DELAY_MAX),
          hi |-> Min(10 * RECONNECT_DELAY * Pow2(n) + 10, 10 * RECONNECT_DELAY_MAX)]
    ELSE LET delay == Min(RECONNECT_DELAY * Pow2(n - 1), RECONNECT_DELAY_MAX)
         IN  [lo |-> 10 * delay, hi |-> 11 * delay]

\* The exit statuses the interpreter can end with, by the way main ended.
\* After the loop every client only logs ("Giving up", "Max reconnection
\* attempts reached") and main returns; no client calls sys.exit, so
\* asyncio.run(main()) returns and the status is 0.  file: without a signal
\* handler SIGINT reaches asyncio.run, which either lets main return (0) or
\* raises KeyboardInterrupt (130), depending on the interpreter version.
ExitStatuses(c, o) ==
    IF c = "file" /\ o = "shutdown" THEN {0, 130} ELSE {0}

Init ==
    /\ client \in Clients
    /\ capacity \in Capacities
    /\ pc = "connect"
    /\ reconnect_attempt = 0
    /\ shutdown = FALSE
    /\ ws = "none"
    /\ buffer = EmptyBuffers
    /\ store = EmptyBuffers
    /\ since_flush = 0
    /\ idle = 0
    /\ nrecv = 0
    /\ frame = NoFrame
    /\ delivered = {}
    /\ pending_at_loss = {}
    /\ persist_failed = FALSE
    /\ outcome = "none"
    /\ first_connect = TRUE
    /\ reconnect_fails = 0
    /\ open_fails = 0
    /\ joined = "none"

\* History: one more reconnect attempt has failed (the first connect is no
\* reconnect; the count saturates above MAX_RECONNECT_ATTEMPTS).
FailedAgain ==
    IF first_connect THEN 0
    ELSE Min(reconnect_fails + 1, MAX_RECONNECT_ATTEMPTS + 1)

\* duckdb: one more websockets.connect in a row has raised (line 420; the
\* other clients keep no such count).
RefusedAgain ==
    IF client = "duckdb" THEN Min(open_fails + 1, MAX_RECONNECT_ATTEMPTS)
    ELSE open_fails

\* websockets.connect and the join messages.  ok: the transport opened and
\* the joins were sent.
Connect(ok) ==
    /\ pc = "connect"
    /\ first_connect' = FALSE
    /\ frame' = NoFrame
    /\ since_flush' = 0
    /\ idle' = 0
    /\ UNCHANGED <<client, capacity, shutdown, buffer, store, nrecv, delivered,
                   pending_at_loss, persist_failed>>
    /\ IF ok
       THEN /\ ws' = "open"
            /\ joined' = "all"
            /\ pc' = "recv"
            /\ reconnect_attempt' = IF client = "duckdb" THEN 0 ELSE reconnect_attempt
            /\ reconnect_fails' = 0
            /\ open_fails' = 0
            /\ outcome' = outcome
       ELSE /\ ws' = ws
            /\ joined' = "none"
            /\ reconnect_fails' = FailedAgain
            /\ open_fails' = RefusedAgain
            /\ TaskRaised(FALSE)

\* The transport opens, some of the join messages are sent (possibly none)
\* and the send of the next one raises.  The loop over the channels has no try: the exception leaves
\* the loop and the "async with" block, which closes the transport, and
\* reaches the caller as any other error.  duckdb has already set
\* reconnect_attempts = 0 when the joins begin.
JoinFails ==
    /\ pc = "connect"
    /\ first_connect' = FALSE
    /\ frame' = NoFrame
    /\ joined' = "partial"
    /\ ws' = AsyncWithExit("open")
    /\ since_flush' = 0
    /\ idle' = 0
    /\ reconnect_fails' = FailedAgain
    /\ open_fails' = 0
    /\ UNCHANGED <<client, capacity, shutdown, buffer, store, nrecv, delivered,
                   pending_at_loss, persist_failed>>
    /\ IF client = "duckdb"
       THEN /\ reconnect_attempt' = 1
            /\ pc' = "flush_remaining"
            /\ outcome' = outcome
       ELSE TaskRaised(FALSE)

\* The backoff delay has elapsed (file: asyncio.sleep; sqlite: wait_for on the
\* shutdown event, which wins when set; duckdb: asyncio.sleep, then the loop
\* test).
Backoff ==
    /\ pc = "backoff"
    /\ frame' = NoFrame
    /\ UNCHANGED <<client, capacity, joined, reconnect_attempt, shutdown, ws, buffer, store,
                   since_flush, idle, nrecv, delivered, pending_at_loss,
                   persist_failed, first_connect, reconnect_fails, open_fails>>
    /\ CASE client = "file" -> pc' = "connect" /\ outcome' = outcome
         [] client = "sqlite" ->
              IF shutdown THEN pc' = "done" /\ outcome' = "shutdown"
              ELSE pc' = "connect" /\ outcome' = outcome
         [] client = "duckdb" ->
              IF DuckLoopContinues(reconnect_attempt, shutdown)
              THEN pc' = "connect" /\ outcome' = outcome
              ELSE pc' = "done" /\ outcome' = "shutdown"

\* One tick of time passes while the receive loop waits for a frame.
Tick ==
    /\ pc = "recv"
    /\ idle < TIMEOUT_LENGTH
    /\ idle' = idle + 1
    /\ since_flush' = Min(since_flush + 1, Interval(client))
    /\ frame' = NoFrame
    /\ UNCHANGED <<client, capacity, joined, pc, reconnect_attempt, shutdown, ws, buffer, store,
                   nrecv, delivered, pending_at_loss, persist_failed, outcome,
                   first_connect, reconnect_fails, open_fails>>

\* A frame arrives before the idle timeout and is handled.
RecvFrame(f) ==
    /\ pc = "recv"
    /\ idle < TIMEOUT_LENGTH
    /\ nrecv < MaxFrames
    /\ LET n == nrecv + 1
           r == RecvResult(client, f, n, buffer, store, since_flush)
       IN  /\ nrecv' = n
           /\ frame' = f
           /\ delivered' = IF r.appended THEN delivered \cup {EntryOf(client, n, f)}
                           ELSE delivered
           /\ persist_failed' = (persist_failed \/ r.failed)
           /\ store' = r.store
           /\ IF r.raised
              THEN /\ buffer' = LeaveTask(r.buffer)
                   /\ ws' = AsyncWithExit(ws)
                   /\ since_flush' = 0
                   /\ idle' = 0
                   /\ TaskRaised(FALSE)
              ELSE IF client = "duckdb" /\ shutdown
              THEN \* "while not shutdown_flag" ends the loop; the "async with"
                   \* block is left and closes the transport
                   /\ buffer' = r.buffer
                   /\ ws' = AsyncWithExit(ws)
                   /\ since_flush' = 0
                   /\ idle' = 0
                   /\ pc' = "flush_remaining"
                   /\ UNCHANGED <<reconnect_attempt, outcome>>
              ELSE /\ buffer' = r.buffer
                   /\ ws' = ws
                   /\ since_flush' = r.since_flush
                   /\ idle' = 0
                   /\ UNCHANGED <<pc, reconnect_attempt, outcome>>
    /\ UNCHANGED <<client, capacity, joined, shutdown, pending_at_loss, first_connect, reconnect_fails, open_fails>>

\* No frame within TIMEOUT_LENGTH.  file / sqlite: send a ping and wait for the
\* pong.  duckdb: "except asyncio.TimeoutError" flushes, clears and re-raises.
RecvTimeout ==
    /\ pc = "recv"
    /\ idle = TIMEOUT_LENGTH
    /\ frame' = TimedOut
    /\ UNCHANGED <<client, capacity, joined, shutdown, nrecv, delivered,
                   first_connect, reconnect_fails, open_fails>>
    /\ IF client = "duckdb"
       THEN /\ pending_at_loss' = UNION {Range(buffer[d]) : d \in Dest}
            /\ store' = HandlerFlush(client, buffer, store).store
            /\ persist_failed' =
                  (persist_failed \/ HandlerFlush(client, buffer, store).lost)
            /\ buffer' = buffer_clear(buffer)
            /\ ws' = AsyncWithExit(ws)
            /\ since_flush' = 0
            /\ idle' = 0
            /\ DuckAfterError
       ELSE /\ pc' = "ping"
            /\ UNCHANGED <<reconnect_attempt, ws, buffer, store, since_flush,
                           idle, outcome, pending_at_loss, persist_failed>>

\* The connection is lost while a handler has to run: result of the flushes
\* of that handler, then the exception reaches the main loop.
LoseConnection(k, cancelling) ==
    LET w == HandlerFlushes(client, k, buffer, store)
    IN  /\ pending_at_loss' = UNION {Range(buffer[d]) : d \in Dest}
        /\ store' = w.store
        /\ persist_failed' = (persist_failed \/ w.lost)
        /\ buffer' = IF client = "duckdb" THEN buffer_clear(buffer)
                      ELSE LeaveTask(buffer)
        /\ ws' = AsyncWithExit(ws)
        /\ since_flush' = 0
        /\ idle' = 0
        /\ frame' = NoFrame
        /\ TaskRaised(cancelling)

\* The answer to the liveness ping (file / sqlite).  ok: the pong arrived in
\* time: flush, reset the buffers and last_flush_time, wait again.  Otherwise
\* the bare except raises ConnectionClosed(1006).
Pong(ok) ==
    /\ pc = "ping"
    /\ UNCHANGED <<client, capacity, joined, shutdown, nrecv, delivered, first_connect, reconnect_fails, open_fails>>
    /\ IF ok
       THEN LET w == HandlerFlush(client, buffer, store)
            IN  IF w.ok
                THEN /\ store' = w.store
                     /\ buffer' = EmptyBuffers
                     /\ since_flush' = 0
                     /\ idle' = 0
                     /\ pc' = "recv"
                     /\ frame' = NoFrame
                     /\ UNCHANGED <<reconnect_attempt, ws, persist_failed, outcome,
                                    pending_at_loss>>
                ELSE \* sqlite: the flush raises; "except Exception" flushes again
                     LoseConnection(1, FALSE)
       ELSE LoseConnection(1, FALSE)

\* recv raises: ConnectionClosedOK, ConnectionClosedError or ConnectionResetError.
ConnLost(kind) ==
    /\ pc = "recv"
    /\ UNCHANGED <<client, capacity, joined, shutdown, nrecv, delivered, first_connect, reconnect_fails, open_fails>>
    /\ LoseConnection(LossFlushes(client, kind), FALSE)

\* duckdb: the statements after the try of connect_and_stream: flush what is
\* left, then sleep if the loop goes on.
FlushRemaining ==
    /\ pc = "flush_remaining"
    /\ store' = HandlerFlush(client, buffer, store).store
    /\ persist_failed' = (persist_failed \/ HandlerFlush(client, buffer, store).lost)
    /\ buffer' = buffer_clear(buffer)
    /\ frame' = NoFrame
    /\ IF DuckLoopContinues(reconnect_attempt, shutdown)
       THEN pc' = "backoff" /\ outcome' = outcome
       ELSE /\ pc' = "done"
            /\ outcome' = IF reconnect_attempt >= MAX_RECONNECT_ATTEMPTS
                          THEN "exhausted" ELSE "shutdown"
    /\ UNCHANGED <<client, capacity, joined, reconnect_attempt, shutdown, ws, since_flush, idle,
                   nrecv, delivered, pending_at_loss,
                   first_connect, reconnect_fails, open_fails>>


\* The process ended on a shutdown request.
EndOnShutdown ==
    /\ pc' = "done"
    /\ outcome' = "shutdown"
    /\ reconnect_attempt' = reconnect_attempt

\* file / sqlite: "except asyncio.CancelledError" of connect_websocket: flush,
\* ws.close(), raise.  A flush that raises (sqlite) leaves the handler with
\* that exception, which main counts as an error.
CancelInRecv ==
    LET w == HandlerFlush(client, buffer, store)
    IN  /\ store' = w.store
        /\ persist_failed' = (persist_failed \/ ~w.ok)
        /\ buffer' = EmptyBuffers
        /\ ws' = AsyncWithExit(ws)
        /\ since_flush' = 0
        /\ idle' = 0
        /\ pending_at_loss' = pending_at_loss
        /\ IF w.ok THEN EndOnShutdown ELSE MainAfterError

\* What a flush has made durable when a CancelledError is raised in it after
\* k records.  file: every "await f.write(msg)" is a point where the
\* cancellation can be delivered, so any prefix can have been written.
\* sqlite: the cancellation is delivered before the commit (nothing is
\* stored) or after it, on the way out of "async with" (all is stored).
CancelledFlush(c, k, bufs, st) ==
    IF c = "file" THEN WriteFirst(k, bufs, st)
    ELSE IF k = 0 THEN st
    ELSE [st EXCEPT !["flowalerts"] = st["flowalerts"] \o bufs["flowalerts"]]

\* file / sqlite: the pong has arrived and the quiet-period flush has begun
\* when the shutdown cancels the task; k records are durable at that moment.
\* The CancelledError leaves the flush before the buffers are reset and
\* reaches "except asyncio.CancelledError", which flushes the buffers as they
\* are, closes the websocket and re-raises.
CancelInFlush(k) ==
    /\ pc = "ping"
    /\ client # "duckdb"
    /\ ~shutdown
    /\ buffer # EmptyBuffers
    /\ k <= Total(buffer)
    /\ k <= Room(Total(store))
    /\ client = "sqlite" =>
          /\ k \in {0, Total(buffer)}
          /\ SqliteWriteOK(buffer["flowalerts"], store["flowalerts"])
    /\ shutdown' = TRUE
    /\ frame' = NoFrame
    /\ LET w == HandlerFlush(client, buffer, CancelledFlush(client, k, buffer, store))
       IN  /\ store' = w.store
           /\ persist_failed' = (persist_failed \/ ~w.ok)
           /\ buffer' = EmptyBuffers
           /\ ws' = AsyncWithExit(ws)
           /\ since_flush' = 0
           /\ idle' = 0
           /\ IF w.ok THEN EndOnShutdown ELSE MainAfterError
    /\ UNCHANGED <<client, capacity, joined, nrecv, delivered, pending_at_loss,
                   first_connect, reconnect_fails, open_fails>>

\* A shutdown signal (SIGINT / SIGTERM).  duckdb: signal_handler sets
\* shutdown_flag.  sqlite: signal_handler sets shutdown_event and main cancels
\* the connection task.  file: the task is cancelled at the await it is in.
Shutdown ==
    /\ ~shutdown
    /\ pc # "done"
    /\ shutdown' = TRUE
    /\ frame' = NoFrame
    /\ UNCHANGED <<client, capacity, joined, nrecv, delivered, first_connect, reconnect_fails, open_fails>>
    /\ CASE client = "duckdb" ->
              UNCHANGED <<pc, reconnect_attempt, ws, buffer, store, since_flush,
                          idle, persist_failed, outcome, pending_at_loss>>
         [] client # "duckdb" /\ pc \in {"backoff", "connect"} ->
              \* CancelledError in asyncio.sleep or in websockets.connect
              /\ EndOnShutdown
              /\ UNCHANGED <<ws, buffer, store, since_flush, idle, persist_failed,
                             pending_at_loss>>
         [] client # "duckdb" /\ pc = "recv" -> CancelInRecv
         [] client # "duckdb" /\ pc = "ping" ->
              \* the bare except around the ping turns the CancelledError into
              \* ConnectionClosed(1006)
              LoseConnection(1, TRUE)

Next ==
    \/ \E ok \in BOOLEAN : Connect(ok)
    \/ JoinFails
    \/ Backoff
    \/ Tick
    \/ \E f \in Frames : RecvFrame(f)
    \/ RecvTimeout
    \/ \E ok \in BOOLEAN : Pong(ok)
    \/ \E kind \in {"closed_ok", "closed_error", "reset"} : ConnLost(kind)
    \/ FlushRemaining
    \/ Shutdown
    \/ \E k \in 0..MaxFrames : CancelInFlush(k)

Spec == Init /\ [][Next]_vars


\* ---------------------------------------------------------------- claims

Buffered == UNION {Range(buffer[d]) : d \in Dest}

\* How many durable rows / lines hold entry e.
TimesStored(e) ==
    Cardinality({<<d, i>> \in Dest \X (1..(2 * MaxFrames)) :
                    i <= Len(store[d]) /\ store[d][i] = e})

\* Entry e is durable: a row or line holds it, or (duckdb) INSERT OR IGNORE
\* dropped it because a row with its key is stored.
Stored(e) ==
    \/ \E d \in Dest : e \in Range(store[d])
    \/ client = "duckdb" /\ e.key \in KeysOf(store["greeks"])

\* C1: with no persistence failure, every delivered data record is buffered
\* or durably written, and none is written twice, in every client and under
\* every interleaving of timeouts, connection losses and shutdown.
C1_DeliveredWrittenExactlyOnce ==
    ~persist_failed =>
        \A e \in delivered :
            e.kind = "data" =>
                /\ TimesStored(e) <= 1
                /\ (e \in Buffered \/ Stored(e))

\* A receive iteration that stays in the loop.
RecvIteration == nrecv' = nrecv + 1 /\ pc' = "recv"

\* The record count of buffer d when the iteration checks the flush trigger.
CountAtCheck(d) ==
    Len(buffer[d]) +
    (IF \E e \in delivered' \ delivered :
            \/ e \in Range(buffer'[d])
            \/ e \in Range(store'[d])
            \/ (d = "greeks" /\ client = "duckdb")
     THEN 1 ELSE 0)

\* C2: in every receive iteration the buffers are flushed if and only if a
\* record count has reached BATCH_SIZE or the time since the last flush has
\* reached the interval, and a flushed buffer holds zero records afterwards.
C2_FlushIffSizeOrTime ==
    [][RecvIteration =>
          LET trigger == \/ \E d \in Dest : CountAtCheck(d) >= BATCH_SIZE
                         \/ since_flush >= Interval(client)
          IN  /\ trigger => (buffer' = EmptyBuffers /\ since_flush' = 0)
              /\ ~trigger => store' = store]_vars

\* C3: once a shutdown signal has been delivered, the transport is closed only
\* after every buffer has been flushed, and no record is flushed twice.
C3_FlushBeforeCloseOnShutdown ==
    (shutdown /\ ws = "closed") =>
        /\ \A d \in Dest : buffer[d] = <<>>
        /\ \A e \in delivered : TimesStored(e) <= 1

\* The streaming connection is lost (or declared dead) with no shutdown
\* requested.
LossStep == ws = "open" /\ ws' = "closed" /\ nrecv' = nrecv /\ ~shutdown'

\* C4: after a connection loss with no shutdown requested and attempts left,
\* the buffers are flushed and the client goes on to reconnect; the loss is
\* not taken for a normal end of the process.
C4_LossLeadsToReconnect ==
    [][LossStep =>
          /\ (pc' \in {"backoff", "flush_remaining"} \/ outcome' = "exhausted")
          /\ outcome' # "normal"
          /\ (~persist_failed' => \A e \in pending_at_loss' : Stored(e)')]_vars

\* C5: the records a buffer held when the connection closed unexpectedly are
\* in the sink before the next reconnect attempt (backoff wait or connect)
\* begins.
C5_PendingFlushedBeforeReconnect ==
    (pc \in {"backoff", "connect"} /\ ~persist_failed) =>
        \A e \in pending_at_loss : Stored(e)

C5_Witness ==
    /\ pc = "backoff"
    /\ ~shutdown
    /\ ~persist_failed
    /\ pending_at_loss # {}
    /\ \A e \in pending_at_loss : Stored(e)

\* C6: the number of consecutive failed reconnect attempts never exceeds
\* MAX_RECONNECT_ATTEMPTS; when it reaches MAX_RECONNECT_ATTEMPTS the process
\* has reported the exhaustion, and once reported the process has ended (no
\* connect is started any more).
C6_ExhaustedAfterMaxAttempts ==
    /\ reconnect_fails <= MAX_RECONNECT_ATTEMPTS
    /\ reconnect_fails = MAX_RECONNECT_ATTEMPTS
           => (pc = "done" /\ outcome = "exhausted")
    /\ outcome = "exhausted" => pc = "done"

\* C7: the retry counter is 0 after every successful connect-and-subscribe,
\* and one more after every failed reconnect attempt.
C7_CounterResetOnSubscribe ==
    [][/\ (pc = "connect" /\ pc' = "recv") => reconnect_attempt' = 0
       /\ (pc = "connect" /\ pc' # "recv" /\ ~first_connect /\ ~shutdown')
              => reconnect_attempt' = reconnect_attempt + 1]_vars

\* A frame that is undecodable, is no 2-element array, or carries a payload
\* that is no mapping.
Malformed(f) == f.shape # "pair" \/ ~f.payload.isdict

\* C8: a malformed frame leaves the client streaming on the same transport
\* with the retry counter unchanged.
C8_MalformedFrameKeepsConnection ==
    [][(nrecv' = nrecv + 1 /\ Malformed(frame') /\ ~shutdown)
          => (pc' = "recv" /\ ws' = "open"
              /\ reconnect_attempt' = reconnect_attempt)]_vars

\* C9: a [channel, payload] frame whose channel tag contains no known pattern
\* is appended to no buffer, and the client keeps receiving.
C9_UnknownChannelNotBuffered ==
    [][(nrecv' = nrecv + 1 /\ frame'.shape = "pair" /\ frame'.chan = {})
          => (delivered' = delivered /\ (~shutdown => pc' = "recv"))]_vars

\* C10: no control message (a "status" field without a "timestamp") is ever
\* in a buffer or in a sink.
C10_ControlMessageIgnored ==
    \A d \in Dest :
        /\ \A i \in 1..Len(buffer[d]) : buffer[d][i].kind # "control"
        /\ \A i \in 1..Len(store[d]) : store[d][i].kind # "control"


\* ------------------------------------------------------------ C11 .. C20

\* C11: in the duckdb client (BATCH_SIZE / BATCH_TIMEOUT), records followed by
\* silence are flushed when BATCH_TIMEOUT has elapsed: while the client waits
\* for a frame, no record sits in the buffer once the interval is over.
C11_TimeFlushDuringSilence ==
    (client = "duckdb" /\ pc = "recv" /\ since_flush >= BATCH_TIMEOUT)
        => buffer["greeks"] = <<>>

\* C12: an idle timeout makes the client send a ping and wait for the pong on
\* the same connection; the timeout alone neither closes the transport nor
\* counts an attempt.
C12_IdleTimeoutPingsFirst ==
    [][(pc = "recv" /\ frame' = TimedOut)
          => (pc' = "ping" /\ ws' = "open"
              /\ reconnect_attempt' = reconnect_attempt)]_vars

\* C13: when the wait for the pong ends with the client back in the receive
\* loop, every buffer has been written once, in order, every buffer is empty,
\* last_flush_time is reset, and transport and retry counter are unchanged.
C13_PongFlushesAndContinues ==
    [][(pc = "ping" /\ pc' = "recv")
          => /\ \A d \in Dest : store'[d] = store[d] \o buffer[d]
             /\ buffer' = EmptyBuffers
             /\ since_flush' = 0
             /\ ws = "open" /\ ws' = "open"
             /\ reconnect_attempt' = reconnect_attempt]_vars

\* The file client is in its first connection (the counter is never reset),
\* back in the receive loop after a pong, with records written.
C13_Witness ==
    /\ client = "file"
    /\ reconnect_attempt = 0
    /\ pc = "recv"
    /\ frame = NoFrame
    /\ idle = 0
    /\ since_flush = 0
    /\ nrecv > 0
    /\ buffer = EmptyBuffers
    /\ store # EmptyBuffers

\* C14: writing the data rows a database sink already holds through its batch
\* write once more leaves the stored rows as they are.
IsData(e) == e.kind = "data"

C14_RewriteAddsNoRows ==
    /\ client = "sqlite" =>
          flush_buffers_to_db(SelectSeq(store["flowalerts"], IsData),
                              store["flowalerts"]).rows = store["flowalerts"]
    /\ client = "duckdb" =>
          flush_buffer_to_db(SelectSeq(store["greeks"], IsData), store["greeks"])
              = store["greeks"]

\* Batches of two data records that arrive after everything received so far.
LateBatches ==
    {<<[seq |-> MaxFrames + 1, key |-> k1, kind |-> "data"],
       [seq |-> MaxFrames + 2, key |-> k2, kind |-> "data"]>> : k1, k2 \in Keys}

\* b holds a key the table has and a key it does not have, and fits.
MixedBatch(b, rows) ==
    /\ KeysOf(b) \cap KeysOf(rows) # {}
    /\ KeysOf(b) \ KeysOf(rows) # {}
    /\ Len(b) <= Room(Len(rows))

\* C15: a batch that mixes stored keys with new keys is written with
\* insert-ignore-conflicts semantics: the write succeeds, the stored rows stay,
\* and every new key is visible afterwards.
C15_MixedBatchInsertsNewKeys ==
    /\ client = "sqlite" =>
          \A b \in LateBatches :
              MixedBatch(b, store["flowalerts"]) =>
                  LET w == flush_buffers_to_db(b, store["flowalerts"])
                  IN  w.ok /\ KeysOf(b) \subseteq KeysOf(w.rows)
    /\ client = "duckdb" =>
          \A b \in LateBatches :
              MixedBatch(b, store["greeks"]) =>
                  KeysOf(b) \subseteq KeysOf(flush_buffer_to_db(b, store["greeks"]))

\* The destination a delivered frame is buffered for.
Routed(c, f) ==
    CASE c = "file" -> FileRoute(f.chan)
      [] c = "sqlite" -> SqliteRoute(f.chan)
      [] c = "duckdb" -> "greeks"

\* The batch a flush of destination d in this step is handed: what the buffer
\* holds, and the record this step appends.
BatchOf(d) ==
    Range(buffer[d]) \cup
        {e \in delivered' \ delivered : Routed(client, frame') = d}

\* C16: a batch write is atomic: a step that changes a destination leaves
\* every record of that destination's batch applied.
C16_BatchWriteAtomic ==
    [][\A d \in Dest :
          store'[d] # store[d] =>
              \A e \in BatchOf(d) :
                  \/ e \in Range(store'[d])
                  \/ (client = "duckdb" /\ e.key \in KeysOf(store'[d]))]_vars

\* C17: the first refused batch write of the duckdb client, while it streams,
\* ends streaming on that connection and counts an attempt.
C17_FailedWritePropagates ==
    [][(client = "duckdb" /\ ~persist_failed /\ persist_failed' /\ ws = "open")
          => (ws' = "closed" /\ pc' # "recv"
              /\ reconnect_attempt' = reconnect_attempt + 1)]_vars

\* C18: in the duckdb client a record that left the buffer is in the table.
C18_ClearedOnlyAfterWrite ==
    client = "duckdb" =>
        \A e \in delivered : e \in Buffered \/ e.key \in KeysOf(store["greeks"])

\* C19: a shutdown signal that arrives while the client waits for the next
\* frame ends that wait at once.
C19_ShutdownEndsReceiveWait ==
    [][(~shutdown /\ shutdown' /\ pc = "recv") => pc' # "recv"]_vars

\* C20: a shutdown signal that arrives during the backoff wait ends the wait
\* at once, and no connect follows.
C20_ShutdownEndsBackoff ==
    [][(~shutdown /\ shutdown' /\ pc = "backoff")
          => (pc' = "done" /\ outcome' = "shutdown")]_vars

\* C26: no buffered record is handed to the sink by two flushes: while a
\* connection loss unwinds, a destination's store grows by at most the records
\* its buffer held.
C26_LossFlushesEachBufferOnce ==
    [][(ws = "open" /\ ws' = "closed" /\ nrecv' = nrecv /\ ~shutdown')
          => \A d \in Dest :
                Len(store'[d]) <= Len(store[d]) + Len(buffer[d])]_vars

\* C29: a shutdown request that arrives during the wait for the pong is not
\* counted as a failed attempt and leads to no backoff or connect, and once
\* shutdown is requested (and no write has failed) no connect attempt is
\* started any more.
C29_ShutdownNeverReconnects ==
    [][/\ (~shutdown /\ shutdown' /\ pc = "ping")
             => (reconnect_attempt' = reconnect_attempt
                 /\ pc' \notin {"backoff", "connect"})
       /\ (shutdown' /\ ~persist_failed' /\ pc # "connect")
             => pc' # "connect"]_vars

\* C30: a frame that is received and not buffered while the flush interval
\* has elapsed and records are buffered still has the buffers flushed in that
\* receive iteration.
C30_FlushCheckedAfterEveryFrame ==
    [][(nrecv' = nrecv + 1 /\ delivered' = delivered /\ pc' = "recv"
        /\ since_flush >= Interval(client) /\ buffer # EmptyBuffers)
          => (buffer' = EmptyBuffers /\ since_flush' = 0)]_vars

\* C24: a process that ended because the attempts are exhausted ends with a
\* non-zero exit status.
C24_ExhaustedExitsNonZero ==
    outcome = "exhausted" => (pc = "done" /\ 0 \notin ExitStatuses(client, outcome))

\* C22: the delay waited before reconnect attempt n = 1..5 is 5, 10, 20, 40,
\* 60 seconds plus a jitter of at most a tenth of that, and the first connect
\* waits nothing.
C22_BackoffDelays ==
    /\ first_connect => pc # "backoff"
    /\ pc = "backoff" =>
          LET d == BackoffDelay(client, reconnect_attempt)
              computed == <<5, 10, 20, 40, 60>>[reconnect_attempt]
          IN  /\ reconnect_attempt \in 1..MAX_RECONNECT_ATTEMPTS
              /\ d.lo = 10 * computed
              /\ d.hi <= 11 * computed

\* Position of the first occurrence of e in s.
FirstPos(s, e) ==
    CHOOSE i \in 1..Len(s) : s[i] = e /\ \A k \in 1..(i - 1) : s[k] # e

\* C23: records keep their receipt order: every buffer is in receipt order,
\* whatever is buffered was received after whatever is stored, and of two
\* stored records of one destination the one received earlier comes first in
\* the store.
C23_ReceiptOrderPreserved ==
    \A d \in Dest :
        /\ \A i, j \in 1..Len(buffer[d]) :
              i < j => buffer[d][i].seq < buffer[d][j].seq
        /\ \A b \in Range(buffer[d]) : \A e \in Range(store[d]) : e.seq < b.seq
        /\ \A e1, e2 \in Range(store[d]) :
              e1.seq < e2.seq => FirstPos(store[d], e1) < FirstPos(store[d], e2)

\* Two records of one destination in the store after a flush, buffer empty.
C23_Witness ==
    \E d \in Dest :
        /\ Len(store[d]) = 2
        /\ store[d][1].seq < store[d][2].seq
        /\ buffer[d] = <<>>
        /\ since_flush = 0
        /\ pc = "recv"
        /\ reconnect_attempt = 0

\* C27: flushing empty buffers is a no-op: a step that receives no frame and
\* finds every buffer empty leaves the store unchanged and meets no write
\* failure, whatever room the sink has left.
C27_EmptyFlushIsNoOp ==
    [][(buffer = EmptyBuffers /\ nrecv' = nrecv)
          => (store' = store /\ persist_failed' = persist_failed)]_vars

\* The first connection was lost with empty buffers while the sink was full:
\* the handler's flush wrote nothing and failed on nothing.
C27_Witness ==
    /\ ws = "closed"
    /\ pc = "backoff"
    /\ reconnect_attempt = 1
    /\ ~shutdown
    /\ frame = NoFrame
    /\ pending_at_loss = {}
    /\ nrecv >= 1
    /\ buffer = EmptyBuffers
    /\ Room(Total(store)) = 0
    /\ ~persist_failed

\* C28: at most one connection is active: the transport is open only while
\* the connection task receives or awaits a pong, and whenever the main loop
\* is about to connect, waits to reconnect, or has ended, the previous
\* transport is closed.
C28_OneConnectionAtATime ==
    /\ ws = "open" <=> pc \in {"recv", "ping"}
    /\ pc \in {"connect", "backoff", "flush_remaining", "done"} => ws # "open"

\* A reconnect is about to start after an earlier connection ended, with a
\* shutdown request pending.
C28_Witness ==
    /\ pc = "connect"
    /\ ws = "closed"
    /\ reconnect_attempt >= 1
    /\ shutdown

\* C21: a cancellation that arrives after the idle timeout, while the client
\* awaits the pong or runs the flush that follows it, leaves every buffered
\* record written exactly once (unless a write fails).
C21_CancelDoesNotInterruptFlush ==
    [][(~shutdown /\ shutdown' /\ pc = "ping" /\ ~persist_failed')
          => \A d \in Dest : store'[d] = store[d] \o buffer[d]]_vars

\* C25: a connect step that opened the transport, and so began to send the
\* join messages, has sent all of them and goes on to receive on the open
\* connection: no failure of one join stops the others or ends the connection.
C25_JoinsIndependent ==
    [][(pc = "connect" /\ joined' # "none")
          => (joined' = "all" /\ ws' = "open" /\ pc' = "recv")]_vars

\* C31: a received frame that is no 2-element array is never buffered.
C31_OnlyPairsBuffered ==
    [][(nrecv' = nrecv + 1 /\ frame'.shape # "pair") => delivered' = delivered]_vars

\* Every payload over the field names of the model and "status": a mapping
\* with any set of fields, or a non-mapping.
AnyPayload ==
    {[isdict |-> b, fields |-> fs, ident |-> Null] :
        b \in BOOLEAN, fs \in SUBSET (AllFields \cup {"status"})}

\* What C32 expects of validate_payload.
IsDataMessage(p) == p.isdict /\ {"timestamp", "ticker"} \subseteq p.fields

\* C32: validate_payload is true exactly for mappings that have both
\* "timestamp" and "ticker", whatever other fields are present: for every
\* payload, and for the payload of every frame the duckdb client receives,
\* which is buffered only if it is such a mapping.
C32_ValidatePayloadExact ==
    /\ \A p \in AnyPayload : validate_payload(p) <=> IsDataMessage(p)
    /\ (client = "duckdb" /\ frame.shape \in {"pair", "long"}) =>
          /\ validate_payload(frame.payload) <=> IsDataMessage(frame.payload)
          /\ (\E e \in delivered : e.seq = nrecv) => IsDataMessage(frame.payload)

\* The duckdb client has received a payload without "ticker" as its second
\* frame and has not buffered it.
C32_Witness ==
    /\ client = "duckdb"
    /\ frame.shape = "pair"
    /\ frame.payload = NoTickerPayload
    /\ nrecv = 2
    /\ \A e \in delivered : e.seq # nrecv
    /\ Len(buffer["greeks"]) = 1

\* C33: in the duckdb client a frame whose payload passes validate_payload
\* but lacks a field parse_payload subscripts is dropped: nothing is
\* buffered, counted or written, the flush timer runs on, and (no shutdown
\* being requested) the receive loop continues on the same connection.
C33_UnparsablePayloadDropped ==
    [][(client = "duckdb" /\ nrecv' = nrecv + 1 /\ frame'.shape = "pair"
        /\ frame'.payload.isdict
        /\ {"timestamp", "ticker"} \subseteq frame'.payload.fields
        /\ ~({"strike", "expiry", "price"} \subseteq frame'.payload.fields))
          => /\ buffer' = buffer
             /\ delivered' = delivered
             /\ store' = store
             /\ reconnect_attempt' = reconnect_attempt
             /\ ~shutdown => (/\ pc' = "recv"
                              /\ ws' = "open"
                              /\ since_flush' = since_flush)]_vars

\* The duckdb client has dropped a payload without "strike" while a record
\* was buffered and the flush interval had elapsed.
C33_Witness ==
    /\ client = "duckdb"
    /\ frame.shape = "pair"
    /\ frame.payload = NoStrikePayload
    /\ nrecv = 2
    /\ Len(buffer["greeks"]) = 1
    /\ since_flush = BATCH_TIMEOUT
    /\ pc = "recv"
    /\ ws = "open"

\* The destinations that hold the record of the frame just received, in a
\* buffer or (flushed in the same iteration) in a file.
HoldersOfLast ==
    {d \in Dest : \E e \in Range(buffer'[d]) \cup Range(store'[d]) : e.seq = nrecv'}

\* C34: in the file client a received 2-element frame is appended to at most
\* one buffer; when its tag contains a known pattern it is appended to exactly
\* the destination of the first pattern it contains in the order
\* "option_trades", "flow-alerts", "gex" (unless a write fails).
C34_RoutedToOneByPriority ==
    [][(client = "file" /\ nrecv' = nrecv + 1 /\ frame'.shape = "pair")
          => /\ Cardinality(HoldersOfLast) <= 1
             /\ (frame'.chan = {} /\ ~persist_failed') => HoldersOfLast = {}
             /\ ("option_trades" \in frame'.chan /\ ~persist_failed')
                   => HoldersOfLast = {"optiontrades"}
             /\ ("flow-alerts" \in frame'.chan /\ "option_trades" \notin frame'.chan
                 /\ ~persist_failed')
                   => HoldersOfLast = {"flowalerts"}
             /\ (frame'.chan = {"gex"} /\ ~persist_failed')
                   => HoldersOfLast = {"greeks"}]_vars

\* The file client has buffered a frame whose tag contains both "flow-alerts"
\* and "gex" for the flow-alerts file only.
C34_Witness ==
    /\ client = "file"
    /\ frame.shape = "pair"
    /\ frame.chan = {"flow-alerts", "gex"}
    /\ Len(buffer["flowalerts"]) = 1
    /\ buffer["greeks"] = <<>>
    /\ buffer["optiontrades"] = <<>>

\* C35: when the process has ended and no write has failed, no buffer holds
\* a record and every record that was appended to a buffer has been handed to
\* the sink (it is stored, or the duckdb table holds a row with its key).
C35_NothingLeftAtTermination ==
    (pc = "done" /\ ~persist_failed) =>
        /\ buffer = EmptyBuffers
        /\ \A e \in delivered : Stored(e)

\* A client has ended on a shutdown request after buffering two records,
\* with no write failure.
C35_Witness ==
    /\ pc = "done"
    /\ outcome = "shutdown"
    /\ ~persist_failed
    /\ Cardinality(delivered) = 2
    /\ \A e \in delivered : Stored(e)

C37_BufferEmptyBeforeReconnect ==
    (client = "duckdb" /\ pc \in {"backoff", "connect"}) => buffer = EmptyBuffers

\* The duckdb client is about to reconnect after a connection that was lost
\* while a record was buffered.
C37_Witness ==
    /\ client = "duckdb"
    /\ pc = "connect"
    /\ ws = "closed"
    /\ pending_at_loss # {}
    /\ buffer = EmptyBuffers

\* The bounds C38 gives the retry counter, and the values a connect may
\* start with.
CounterInBounds ==
    IF client = "duckdb"
    THEN /\ reconnect_attempt \in 0..MAX_RECONNECT_ATTEMPTS
         /\ pc = "connect" => reconnect_attempt < MAX_RECONNECT_ATTEMPTS
    ELSE /\ reconnect_attempt \in 0..(MAX_RECONNECT_ATTEMPTS + 1)
         /\ pc = "connect" => reconnect_attempt <= MAX_RECONNECT_ATTEMPTS

\* C38: the retry counter stays within its bounds, a connect starts only
\* while it is within the limit, and in the file and sqlite clients it never
\* decreases.
C38_CounterWithinBounds ==
    [][/\ CounterInBounds
       /\ CounterInBounds'
       /\ client # "duckdb" => reconnect_attempt' >= reconnect_attempt]_vars

\* The file client has ended with the counter at its upper bound.
C38_Witness ==
    /\ client = "file"
    /\ pc = "done"
    /\ outcome = "exhausted"
    /\ reconnect_attempt = MAX_RECONNECT_ATTEMPTS + 1

DuckCounterStep ==
    \/ reconnect_attempt' = reconnect_attempt
    \/ /\ pc = "connect"
       /\ ws' = "open"
       /\ reconnect_attempt' = 0
    \/ /\ pc = "connect"
       /\ joined' = "partial"
       /\ reconnect_attempt' = 1
    \/ /\ ws = "open"
       /\ ws' = "closed"
       /\ reconnect_attempt' = 1
    \/ /\ pc = "connect"
       /\ joined' = "none"
       /\ open_fails' = open_fails + 1
       /\ reconnect_attempt' = reconnect_attempt + 1

=============================================================================
